---- MODULE Spec2Model ----
(***************************************************************************)
(* A model of clipee's Windows backend (src/windows): the process-wide     *)
(* clipboard session tracker (lib.rs), the locked global-memory wrapper    *)
(* (lock.rs), and the format codecs (format.rs, format/*.rs).              *)
(*                                                                         *)
(* Every operation of the program is one action.  An action records the    *)
(* operation's name in op, its inputs (and the part of the pre-state the   *)
(* properties speak about) in arg, its return value in result and the OS   *)
(* calls it issued, in order, in osCalls.                                  *)
(***************************************************************************)
EXTENDS Integers, Sequences, FiniteSets, TLC

VARIABLES
    op,          \* name of the operation that ran last ("init" before any)
    arg,         \* its inputs, and the pre-state facts it was called in
    result,      \* its return value: [tag |-> "Ok" | "Err" | "Panic", ...]
    osCalls,     \* the OS calls it issued, in program order
    cellSet,     \* CLIPBOARD_HANDLE.get().is_some()
    weak,        \* the Weak<ClipboardHandleInner> in the cell: a window, 0 = none
    strong,      \* Arc strong count of each session (keyed by its window)
    nextWindow,  \* the HWND the next successful CreateWindowExW returns
    osOwner,     \* the window this process holds the OS clipboard open with, 0 = closed
    opened,      \* per window: successful OpenClipboard calls
    closeCalls,  \* per window: CloseClipboard calls issued by that session's drop
    lockCount,   \* per global-memory handle: the OS lock count
    ptrs,        \* per global-memory handle: LockedPtr values alive on it
    clip,        \* OS clipboard contents: format -> block, or NoBlock
    prev,        \* the call before the last, where two calls are related; else <<>>
    thr,         \* per thread: its position in new or drop, its locals, its handle
    mutex        \* the thread holding the Mutex inside CLIPBOARD_HANDLE, 0 = free

callVars == <<op, arg, result, osCalls>>
sessVars == <<cellSet, weak, strong, nextWindow, osOwner, opened, closeCalls>>
lockVars == <<lockCount, ptrs>>
clipVars == <<clip>>
bmpVars  == <<prev>>
thrVars  == <<thr, mutex>>
vars == <<callVars, sessVars, lockVars, clipVars, bmpVars, thrVars>>

(***************************************************************************)
(* Bounds of the model.                                                    *)
(***************************************************************************)
MaxWindows == 4      \* windows (sessions) created in one behaviour
MaxHandles == 3      \* ClipboardHandle values alive at once
MaxMem     == 2      \* global-memory handles in the lock model
MaxPtrs    == 2      \* LockedPtr values alive at once on one handle
MaxThreads == 2      \* threads that call ClipboardHandle::new concurrently

Windows == 1..MaxWindows
Threads == 1..MaxThreads

\* enum ClipboardFormat (format.rs)
ClipboardFormat ==
    {"Text", "Bitmap", "BitmapInfo", "BitmapV5", "DropHandle", "UnicodeText"}
NoBlock == [kind |-> "none"]

Ok(v)    == [tag |-> "Ok", val |-> v]
Err(e)   == [tag |-> "Err", err |-> e]
Panic(m) == [tag |-> "Panic", msg |-> m]

\* The call recorded in op, arg and result, as kept in prev.
LastCall == [op |-> op, arg |-> arg, result |-> result]

\* Number of occurrences of call c in the trace s.
RECURSIVE Count(_, _)
Count(s, c) ==
    IF s = <<>> THEN 0
    ELSE (IF Head(s) = c THEN 1 ELSE 0) + Count(Tail(s), c)

(***************************************************************************)
(* The clipboard session: lib.rs                                           *)
(***************************************************************************)

\* OpenClipboard(window): the OS refuses when the clipboard is held open,
\* by another process (busy) or by another window of this process.
OpenClipboard_Shared(busy) == ~busy
OpenClipboard(busy) == ~busy /\ osOwner = 0

\* ClipboardHandleInner::new: create the window, open the clipboard with it.
ClipboardHandleInner_new_Retry(winOk, busy) ==
    IF ~winOk
    THEN [res |-> Err("CreateWindow"), calls |-> <<"CreateWindowExW">>]
    ELSE IF ~OpenClipboard(busy)
    THEN [res |-> Err("OpenClipboard"),
          calls |-> <<"CreateWindowExW", "OpenClipboard", "OpenClipboard">>]
    ELSE [res |-> Ok(nextWindow),
          calls |-> <<"CreateWindowExW", "OpenClipboard">>]
ClipboardHandleInner_new(winOk, busy) ==
    IF ~winOk
    THEN [res |-> Err("CreateWindow"), calls |-> <<"CreateWindowExW">>]
    ELSE IF ~OpenClipboard(busy)
    THEN [res |-> Err("OpenClipboard"),
          calls |-> <<"CreateWindowExW", "OpenClipboard">>]
    ELSE [res |-> Ok(nextWindow),
          calls |-> <<"CreateWindowExW", "OpenClipboard">>]

\* impl Drop for ClipboardHandleInner: the OS calls of the destructor.
Drop_ClipboardHandleInner_NoClose == <<"CloseWindow">>
Drop_ClipboardHandleInner == <<"CloseClipboard", "CloseWindow">>

\* Weak::upgrade on the tracked reference: the session, or 0 for None.
upgrade_AlwaysNone(w) == 0
upgrade(w) == IF w # 0 /\ strong[w] > 0 THEN w ELSE 0

LiveSessions == {w \in Windows : strong[w] > 0}

RECURSIVE SumOver(_, _)
SumOver(f, S) ==
    IF S = {} THEN 0
    ELSE LET x == CHOOSE y \in S : TRUE IN f[x] + SumOver(f, S \ {x})

\* ClipboardHandle values alive: the strong counts of all sessions.
LiveHandles == SumOver(strong, Windows)

\* The state a failed or shared new() leaves alone.
Tracker == <<cellSet, weak, osOwner, opened, closeCalls>>

\* ClipboardHandle::new.  winOk: CreateWindowExW returns a valid window;
\* busy: another process holds the OS clipboard open.
ClipboardHandle_new ==
    \E winOk, busy \in BOOLEAN :
        LET up    == IF cellSet THEN upgrade(weak) ELSE 0
            inner == ClipboardHandleInner_new(winOk, busy)
        IN  /\ LiveHandles < MaxHandles
            /\ op' = "new"
            /\ arg' = [live |-> LiveSessions, cellSet |-> cellSet,
                        weak |-> weak, owner |-> osOwner]
            /\ prev' = LastCall
            /\ IF cellSet /\ up # 0
               THEN \* Some(handle) => Ok(ClipboardHandle(handle))
                    /\ strong' = [strong EXCEPT ![up] = @ + 1]
                    /\ result' = Ok(up)
                    /\ osCalls' = <<>>
                    /\ UNCHANGED <<Tracker, nextWindow>>
               ELSE \* both remaining arms run ClipboardHandleInner::new()?
                    /\ nextWindow <= MaxWindows
                    /\ result' = inner.res
                    /\ osCalls' = inner.calls
                    /\ nextWindow' = IF winOk THEN nextWindow + 1 ELSE nextWindow
                    /\ IF inner.res.tag = "Ok"
                       THEN /\ strong' = [strong EXCEPT ![nextWindow] = 1]
                            /\ osOwner' = nextWindow
                            /\ opened' = [opened EXCEPT ![nextWindow] = @ + 1]
                            \* *handle = Arc::downgrade(..), or CLIPBOARD_HANDLE.set(..)
                            /\ weak' = nextWindow
                            /\ cellSet' = TRUE
                            /\ UNCHANGED closeCalls
                       ELSE UNCHANGED <<Tracker, strong>>
            /\ UNCHANGED <<lockVars, clipVars, thrVars>>

\* #[derive(Clone)] on ClipboardHandle: one more Arc to the same session.
ClipboardHandle_clone ==
    \E w \in LiveSessions :
        /\ LiveHandles < MaxHandles
        /\ op' = "clone"
        /\ arg' = [session |-> w]
        /\ strong' = [strong EXCEPT ![w] = @ + 1]
        /\ result' = Ok(w)
        /\ osCalls' = <<>>
        /\ prev' = LastCall
        /\ UNCHANGED <<Tracker, nextWindow, lockVars, clipVars, thrVars>>

\* Dropping a ClipboardHandle: the Arc releases one strong count and runs
\* the inner destructor when that was the last one.
ClipboardHandle_drop ==
    \E w \in LiveSessions :
        LET calls == IF strong[w] = 1 THEN Drop_ClipboardHandleInner ELSE <<>>
        IN  /\ op' = "drop"
            /\ arg' = [session |-> w, count |-> strong[w]]
            /\ strong' = [strong EXCEPT ![w] = @ - 1]
            /\ result' = Ok(w)
            /\ osCalls' = calls
            /\ osOwner' = IF Count(calls, "CloseClipboard") > 0 THEN 0 ELSE osOwner
            /\ closeCalls' = [closeCalls EXCEPT
                                 ![w] = @ + Count(calls, "CloseClipboard")]
            /\ prev' = LastCall
            /\ UNCHANGED <<cellSet, weak, opened, nextWindow,
                           lockVars, clipVars, thrVars>>

IdleCall == /\ op = "init" /\ arg = <<>> /\ result = Ok(0) /\ osCalls = <<>>
IdleSess ==
    /\ cellSet = FALSE /\ weak = 0 /\ nextWindow = 1 /\ osOwner = 0
    /\ strong = [w \in Windows |-> 0]
    /\ opened = [w \in Windows |-> 0]
    /\ closeCalls = [w \in Windows |-> 0]
IdleLock ==
    /\ lockCount = [h \in 1..MaxMem |-> 0]
    /\ ptrs = [h \in 1..MaxMem |-> 0]
IdleClip == clip = [f \in ClipboardFormat |-> NoBlock]
IdleBmp  == prev = <<>>
\* No thread is inside new or drop, none holds a handle, the mutex is free.
IdleThr ==
    /\ thr = [t \in Threads |->
                [pc |-> "idle", held |-> 0, inner |-> 0, ret |-> [tag |-> "None"]]]
    /\ mutex = 0

Init == IdleCall /\ IdleSess /\ IdleLock /\ IdleClip /\ IdleBmp /\ IdleThr
Next == ClipboardHandle_new \/ ClipboardHandle_clone \/ ClipboardHandle_drop
Spec == Init /\ [][Next]_vars

\* C1: Policy A sharing.  A ClipboardHandle::new() called while some handle
\* is live succeeds, returns a handle to that same live session, creates no
\* session of its own and issues no OS call at all (neither CreateWindowExW
\* nor OpenClipboard).
C1_SharingWhileLive ==
    (op = "new" /\ arg.live # {}) =>
        /\ result.tag = "Ok"
        /\ result.val \in arg.live
        /\ LiveSessions = arg.live
        /\ Count(osCalls, "OpenClipboard") = 0
        /\ Count(osCalls, "CreateWindowExW") = 0

\* A new() that shared the session of a live handle.
C1_Witness ==
    /\ op = "new" /\ arg.live # {}
    /\ result.tag = "Ok" /\ strong[result.val] >= 2

\* C2: Close exactly at last release.  CloseClipboard is issued once per
\* successful OpenClipboard, by the drop that takes the session's handle
\* count from 1 to 0 and by no other operation, never while a handle of the
\* session is live; a new() after that opens a fresh OS session.
C2_CloseAtLastRelease ==
    /\ \A w \in Windows :
          /\ opened[w] <= 1
          /\ strong[w] > 0 => opened[w] = 1
          /\ closeCalls[w] = IF strong[w] = 0 THEN opened[w] ELSE 0
    /\ op = "drop" =>
          Count(osCalls, "CloseClipboard") = IF arg.count = 1 THEN 1 ELSE 0
    /\ op \in {"new", "clone"} => Count(osCalls, "CloseClipboard") = 0
    /\ (op = "new" /\ arg.live = {} /\ result.tag = "Ok") =>
          /\ Count(osCalls, "OpenClipboard") = 1
          /\ strong[result.val] = 1
          /\ closeCalls[result.val] = 0
          /\ osOwner = result.val

\* A session was closed by its last drop and a later new() opened another.
C2_Witness ==
    /\ op = "new" /\ arg.live = {} /\ result.tag = "Ok"
    /\ \E w \in Windows : w # result.val /\ closeCalls[w] = 1

\* C17: Failed open leaves no session behind.  When CreateWindowExW or
\* OpenClipboard fails inside ClipboardHandle::new, the call returns
\* CreateWindow or OpenClipboard after one attempt of each OS call it
\* reached, leaves the tracker and the OS clipboard as they were (no session
\* is published, none is live), issues no CloseClipboard, and the next new()
\* makes a fresh attempt: it creates a window and, if it gets one, calls
\* OpenClipboard again.
C17_FailedOpenLeavesNothing ==
    /\ (op = "new" /\ result.tag = "Err") =>
          /\ result.err \in {"CreateWindow", "OpenClipboard"}
          /\ Count(osCalls, "CreateWindowExW") = 1
          /\ Count(osCalls, "OpenClipboard")
                = IF result.err = "OpenClipboard" THEN 1 ELSE 0
          /\ Count(osCalls, "CloseClipboard") = 0
          /\ cellSet = arg.cellSet /\ weak = arg.weak /\ osOwner = arg.owner
          /\ LiveSessions = {} /\ arg.live = {}
          /\ cellSet => upgrade(weak) = 0
    /\ (op = "new" /\ prev # <<>> /\ prev.op = "new"
           /\ prev.result.tag = "Err") =>
          /\ Count(osCalls, "CreateWindowExW") = 1
          /\ result # Err("CreateWindow") => Count(osCalls, "OpenClipboard") = 1
          /\ result.tag = "Ok" =>
                (strong[result.val] = 1 /\ opened[result.val] = 1
                 /\ osOwner = result.val /\ weak = result.val)

\* A new() whose OpenClipboard was refused, followed by a new() that opened
\* a session.
C17_Witness ==
    /\ op = "new" /\ result.tag = "Ok"
    /\ prev # <<>> /\ prev.op = "new" /\ prev.result = Err("OpenClipboard")
    /\ Count(osCalls, "OpenClipboard") = 1

(***************************************************************************)
(* The session under concurrency: lib.rs ClipboardHandle::new and the drop *)
(* of a handle, one action per step another thread can observe.            *)
(* ClipboardHandle is Send and Sync (an Arc around an HWND).               *)
(***************************************************************************)

\* Positions inside ClipboardHandle::new: the threads there have still to
\* call ClipboardHandleInner::new or are past it.
InNew == {"lock", "upgrade", "create", "first", "store", "set"}

\* Windows that the calls of new in progress may still create.
Pending == Cardinality({u \in Threads : thr[u].pc \in {"lock", "upgrade",
                                                         "create", "first"}})

\* One step of thread t: its record afterwards, and the step as the call of
\* the state.
Stepped(t, name, rec, calls) ==
    /\ thr' = [thr EXCEPT ![t] = rec]
    /\ op' = name
    /\ arg' = [thread |-> t]
    /\ result' = rec.ret
    /\ osCalls' = calls
    /\ UNCHANGED <<lockVars, clipVars, bmpVars>>

\* What ClipboardHandleInner::new()? leaves when it made a session: the Arc
\* around it has one strong reference, the OS clipboard is open with its
\* window.
Opened ==
    /\ strong' = [strong EXCEPT ![nextWindow] = 1]
    /\ osOwner' = nextWindow
    /\ opened' = [opened EXCEPT ![nextWindow] = @ + 1]
    /\ nextWindow' = nextWindow + 1

\* The destructor of a session after its last strong reference went:
\* CloseClipboard() takes no window, it closes what the process has open.
Closed(w) ==
    /\ osOwner' = IF Count(Drop_ClipboardHandleInner, "CloseClipboard") > 0
                  THEN 0 ELSE osOwner
    /\ closeCalls' = [closeCalls EXCEPT
                        ![w] = @ + Count(Drop_ClipboardHandleInner,
                                         "CloseClipboard")]

\* Line 44: match CLIPBOARD_HANDLE.get()
New_get(t) ==
    /\ thr[t].pc = "idle" /\ thr[t].held = 0
    /\ nextWindow + Pending <= MaxWindows
    /\ Stepped(t, "new: get",
               [thr[t] EXCEPT !.pc = IF cellSet THEN "lock" ELSE "first",
                              !.ret = [tag |-> "None"]], <<>>)
    /\ UNCHANGED <<sessVars, mutex>>

\* Line 46: let mut handle = handle.lock()
New_lock(t) ==
    /\ thr[t].pc = "lock" /\ mutex = 0
    /\ mutex' = t
    /\ Stepped(t, "new: lock", [thr[t] EXCEPT !.pc = "upgrade"], <<>>)
    /\ UNCHANGED sessVars

\* Lines 47-48: match handle.upgrade(); Some(handle) returns the shared
\* session and the guard unlocks the mutex.
New_upgrade(t) ==
    LET up == upgrade(weak)
    IN  /\ thr[t].pc = "upgrade"
        /\ IF up # 0
           THEN /\ strong' = [strong EXCEPT ![up] = @ + 1]
                /\ mutex' = 0
                /\ Stepped(t, "new: upgrade",
                           [thr[t] EXCEPT !.pc = "idle", !.held = up,
                                          !.ret = Ok(up)], <<>>)
           ELSE /\ Stepped(t, "new: upgrade",
                           [thr[t] EXCEPT !.pc = "create"], <<>>)
                /\ UNCHANGED <<strong, mutex>>
        /\ UNCHANGED <<Tracker, nextWindow>>

\* Line 50: let new_handle = Arc::new(ClipboardHandleInner::new()?), with the
\* mutex held; the ? returns the error and the guard unlocks.
New_create(t) ==
    \E winOk, busy \in BOOLEAN :
        LET inner == ClipboardHandleInner_new(winOk, busy)
        IN  /\ thr[t].pc = "create"
            /\ IF inner.res.tag = "Ok"
               THEN /\ Opened
                    /\ Stepped(t, "new: create",
                               [thr[t] EXCEPT !.pc = "store",
                                              !.inner = nextWindow],
                               inner.calls)
                    /\ UNCHANGED <<cellSet, weak, closeCalls, mutex>>
               ELSE /\ mutex' = 0
                    /\ nextWindow' = IF winOk THEN nextWindow + 1
                                     ELSE nextWindow
                    /\ Stepped(t, "new: create",
                               [thr[t] EXCEPT !.pc = "idle", !.ret = inner.res],
                               inner.calls)
                    /\ UNCHANGED <<Tracker, strong>>

\* Lines 51-52: *handle = Arc::downgrade(&new_handle); Ok(..); unlock.
New_store(t) ==
    /\ thr[t].pc = "store"
    /\ weak' = thr[t].inner
    /\ mutex' = 0
    /\ Stepped(t, "new: store",
               [thr[t] EXCEPT !.pc = "idle", !.held = thr[t].inner,
                              !.inner = 0, !.ret = Ok(thr[t].inner)], <<>>)
    /\ UNCHANGED <<cellSet, strong, nextWindow, osOwner, opened, closeCalls>>

\* Line 57: let handle = Arc::new(ClipboardHandleInner::new()?), in the arm
\* that found the cell empty; no lock is held here.
New_first(t) ==
    \E winOk, busy \in BOOLEAN :
        LET inner == ClipboardHandleInner_new(winOk, busy)
        IN  /\ thr[t].pc = "first"
            /\ IF inner.res.tag = "Ok"
               THEN /\ Opened
                    /\ Stepped(t, "new: first",
                               [thr[t] EXCEPT !.pc = "set",
                                              !.inner = nextWindow],
                               inner.calls)
                    /\ UNCHANGED <<cellSet, weak, closeCalls, mutex>>
               ELSE /\ nextWindow' = IF winOk THEN nextWindow + 1
                                     ELSE nextWindow
                    /\ Stepped(t, "new: first",
                               [thr[t] EXCEPT !.pc = "idle", !.ret = inner.res],
                               inner.calls)
                    /\ UNCHANGED <<Tracker, strong, mutex>>

\* Lines 58-61: CLIPBOARD_HANDLE.set(..).unwrap_or_else(|_| unreachable!()).
\* OnceCell::set fails on a cell that is set; the panic unwinds through the
\* local Arc, the only reference to the new session, whose destructor runs.
New_set(t) ==
    LET w == thr[t].inner
    IN  /\ thr[t].pc = "set"
        /\ IF ~cellSet
           THEN /\ cellSet' = TRUE
                /\ weak' = w
                /\ Stepped(t, "new: set",
                           [thr[t] EXCEPT !.pc = "idle", !.held = w,
                                          !.inner = 0, !.ret = Ok(w)], <<>>)
                /\ UNCHANGED <<strong, osOwner, closeCalls>>
           ELSE /\ strong' = [strong EXCEPT ![w] = 0]
                /\ Closed(w)
                /\ Stepped(t, "new: set",
                           [thr[t] EXCEPT !.pc = "panicked", !.inner = 0,
                                          !.ret = Panic("unreachable")],
                           Drop_ClipboardHandleInner)
                /\ UNCHANGED <<cellSet, weak>>
        /\ UNCHANGED <<nextWindow, opened, mutex>>

\* Dropping the thread's ClipboardHandle, first half: the Arc gives up its
\* strong reference (one atomic decrement).
Drop_release(t) ==
    LET w == thr[t].held
    IN  /\ thr[t].pc = "idle" /\ w # 0
        /\ strong' = [strong EXCEPT ![w] = @ - 1]
        /\ Stepped(t, "drop: release",
                   [thr[t] EXCEPT !.held = 0,
                                  !.pc = IF strong[w] = 1 THEN "drop_inner"
                                         ELSE "idle",
                                  !.inner = IF strong[w] = 1 THEN w ELSE 0,
                                  !.ret = [tag |-> "None"]], <<>>)
        /\ UNCHANGED <<Tracker, nextWindow, mutex>>

\* Second half, in the thread that released the last reference:
\* impl Drop for ClipboardHandleInner.
Drop_inner(t) ==
    /\ thr[t].pc = "drop_inner"
    /\ Closed(thr[t].inner)
    /\ Stepped(t, "drop: inner",
               [thr[t] EXCEPT !.pc = "idle", !.inner = 0],
               Drop_ClipboardHandleInner)
    /\ UNCHANGED <<cellSet, weak, strong, nextWindow, opened, mutex>>

NextConc ==
    \E t \in Threads :
        \/ New_get(t) \/ New_lock(t) \/ New_upgrade(t) \/ New_create(t)
        \/ New_store(t) \/ New_first(t) \/ New_set(t)
        \/ Drop_release(t) \/ Drop_inner(t)
SpecConc == Init /\ [][NextConc]_vars

\* Sessions whose OpenClipboard succeeded and whose CloseClipboard has not
\* been issued.
OpenSessions == {w \in Windows : opened[w] > closeCalls[w]}

\* C12: Mutual exclusion of the session tracker.  In every interleaving of
\* threads calling ClipboardHandle::new, the first calls of the process
\* included, at most one session is open at a time, every caller that has
\* returned Ok holds a handle to that one session, and no call executes the
\* branch marked unreachable.
C12_TrackerMutualExclusion ==
    /\ Cardinality(OpenSessions) <= 1
    /\ \A t \in Threads : thr[t].held # 0 => thr[t].held \in OpenSessions
    /\ \A t \in Threads : thr[t].ret # Panic("unreachable")

\* C13: Operations run only on an open session.  In every interleaving of
\* threads calling new and dropping handles, as long as a strong reference
\* to a session exists (a ClipboardHandle, or the Arc a running new is about
\* to return) the OS clipboard is open with that session's window: the
\* CloseClipboard of an old session's destructor never closes the OS session
\* a newer handle relies on.
C13_LiveHandleOpenSession ==
    /\ \A w \in Windows : strong[w] > 0 => osOwner = w
    /\ \A t \in Threads : thr[t].held # 0 => osOwner = thr[t].held

\* The destructor of an old session closed the clipboard while another
\* thread, whose upgrade had already failed, was about to open a new one.
C13_Witness ==
    /\ op = "drop: inner" /\ osOwner = 0
    /\ Count(osCalls, "CloseClipboard") = 1
    /\ \E u \in Threads : thr[u].pc = "create"

(***************************************************************************)
(* The locked global-memory wrapper: lock.rs                               *)
(***************************************************************************)
Mem == 1..MaxMem

\* std::mem::size_of::<T>() of the element types LockedPtr is used with.
size_of(T) ==
    CASE T = "unit" -> 0          \* LockedPtr<()>, format/files.rs
      [] T = "u8" -> 1            \* c_char and u8
      [] T = "u16" -> 2
      [] T = "BITMAPINFO" -> 44
      [] T = "BITMAPV5HEADER" -> 124
ElemTypes == {"unit", "u8", "u16", "BITMAPINFO"}

\* Byte sizes GlobalSize may report for a handle the OS hands out.
ReportedSizes == {0, 1, 2, 4, 44}

\* LockedPtr::<T>::new(handle).  lockOk: GlobalLock returned a non-null
\* pointer; allocSize: what GlobalSize reports.  locked tells whether the
\* call took an OS lock on the handle, made whether or not a LockedPtr (whose
\* drop is the only unlock) comes back.
LockedPtr_new_NoSanityCheck(h, T, lockOk, allocSize) ==
    IF ~lockOk
    THEN [res |-> Err("Locking"), calls |-> <<"GlobalLock">>, locked |-> FALSE]
    ELSE IF allocSize = 0
    THEN [res |-> Err("InvalidObject"),
          calls |-> <<"GlobalLock", "GlobalSize">>, locked |-> TRUE]
    ELSE [res |-> Ok([lock |-> h, size |-> allocSize]),
          calls |-> <<"GlobalLock", "GlobalSize">>, locked |-> TRUE]
LockedPtr_new(h, T, lockOk, allocSize) ==
    IF ~lockOk
    THEN [res |-> Err("Locking"), calls |-> <<"GlobalLock">>, locked |-> FALSE]
    ELSE IF allocSize = 0
    THEN [res |-> Err("InvalidObject"),
          calls |-> <<"GlobalLock", "GlobalSize">>, locked |-> TRUE]
    ELSE IF size_of(T) > allocSize
    THEN [res |-> Panic("allocation cannot fit T"),
          calls |-> <<"GlobalLock", "GlobalSize">>, locked |-> TRUE]
    ELSE [res |-> Ok([lock |-> h, size |-> allocSize]),
          calls |-> <<"GlobalLock", "GlobalSize">>, locked |-> TRUE]

\* LockedPtr::<T>::alloc(amt).  allocOk: GlobalAlloc returned a handle.  The
\* OS cannot lock a zero-byte movable block; a block of n > 0 bytes reports
\* at least n bytes.
LockedPtr_alloc(h, T, amt, allocOk, lockOk) ==
    LET bytes == size_of(T) * amt
        inner == LockedPtr_new(h, T, lockOk /\ bytes > 0, bytes)
    IN  IF ~allocOk
        THEN [res |-> Err("Allocation"), calls |-> <<"GlobalAlloc">>,
              locked |-> FALSE]
        ELSE [res |-> inner.res, calls |-> <<"GlobalAlloc">> \o inner.calls,
              locked |-> inner.locked]

\* impl Drop for LockedPtr: the one GlobalUnlock.
Drop_LockedPtr == <<"GlobalUnlock">>

\* The OS lock count and the live LockedPtr values after a constructor ran.
Constructed(h, out) ==
    /\ result' = out.res
    /\ osCalls' = out.calls
    /\ lockCount' = [lockCount EXCEPT ![h] = @ + (IF out.locked THEN 1 ELSE 0)]
    /\ ptrs' = [ptrs EXCEPT ![h] = @ + (IF out.res.tag = "Ok" THEN 1 ELSE 0)]

Lock_new ==
    \E h \in Mem, T \in ElemTypes, lockOk \in BOOLEAN, sz \in ReportedSizes :
        /\ lockCount[h] < MaxPtrs
        /\ op' = "LockedPtr::new"
        /\ arg' = [lock |-> h, T |-> T, lockOk |-> lockOk, size |-> sz]
        /\ Constructed(h, LockedPtr_new(h, T, lockOk, sz))
        /\ UNCHANGED <<sessVars, clipVars, bmpVars, thrVars>>

Lock_alloc ==
    \E h \in Mem, T \in ElemTypes, amt \in 0..2, allocOk, lockOk \in BOOLEAN :
        /\ lockCount[h] = 0 /\ ptrs[h] = 0      \* GlobalAlloc returns a new handle
        /\ op' = "LockedPtr::alloc"
        /\ arg' = [lock |-> h, T |-> T, amt |-> amt, lockOk |-> lockOk]
        /\ Constructed(h, LockedPtr_alloc(h, T, amt, allocOk, lockOk))
        /\ UNCHANGED <<sessVars, clipVars, bmpVars, thrVars>>

Lock_drop ==
    \E h \in Mem :
        /\ ptrs[h] > 0
        /\ op' = "LockedPtr::drop"
        /\ arg' = [lock |-> h]
        /\ result' = Ok(0)
        /\ osCalls' = Drop_LockedPtr
        /\ ptrs' = [ptrs EXCEPT ![h] = @ - 1]
        /\ lockCount' = [lockCount EXCEPT
                           ![h] = @ - Count(Drop_LockedPtr, "GlobalUnlock")]
        /\ UNCHANGED <<sessVars, clipVars, bmpVars, thrVars>>

NextLock == Lock_new \/ Lock_alloc \/ Lock_drop
SpecLock == Init /\ [][NextLock]_vars

\* C7: Lock/unlock pairing.  Every OS lock taken by LockedPtr::new or
\* LockedPtr::alloc is either still owned by a live LockedPtr (whose drop
\* unlocks it) or has been unlocked: once a constructor call has finished, the
\* OS lock count of every handle equals the number of LockedPtr values alive
\* on it, on the Ok path, the error paths and the undersized-block panic.
C7_LockUnlockPairing == \A h \in Mem : lockCount[h] = ptrs[h]

\* C20: Undersized block aborts.  LockedPtr::<T>::new returns Err(Locking)
\* when the lock fails, Err(InvalidObject) when the reported size is 0, and
\* panics, returning neither Ok nor an error, when the reported size s has
\* 0 < s < size_of(T); so every LockedPtr<T> made by new or alloc refers to
\* an allocation of at least size_of(T) bytes.
C20_UndersizedAborts ==
    /\ op = "LockedPtr::new" =>
          /\ ~arg.lockOk => result = Err("Locking")
          /\ (arg.lockOk /\ arg.size = 0) => result = Err("InvalidObject")
          /\ (arg.lockOk /\ 0 < arg.size /\ arg.size < size_of(arg.T)) =>
                result.tag = "Panic"
          /\ (arg.lockOk /\ arg.size > 0 /\ arg.size >= size_of(arg.T)) =>
                result = Ok([lock |-> arg.lock, size |-> arg.size])
    /\ (op \in {"LockedPtr::new", "LockedPtr::alloc"} /\ result.tag = "Ok") =>
          /\ result.val.size >= size_of(arg.T)
          /\ result.val.size > 0

\* A BITMAPINFO lock on a block of four bytes panicked.
C20_Witness ==
    /\ op = "LockedPtr::new" /\ arg.T = "BITMAPINFO" /\ arg.lockOk
    /\ arg.size = 4 /\ result.tag = "Panic"

(***************************************************************************)
(* Format tags and OS format identifiers: format.rs                        *)
(***************************************************************************)
CF_TEXT        == 1
CF_BITMAP      == 2
CF_DIB         == 8
CF_UNICODETEXT == 13
CF_HDROP       == 15
CF_DIBV5       == 17
MaxCode        == 100     \* OS format codes tried: 0..MaxCode and HighCodes

\* Codes of registered and private formats, outside the predefined range.
HighCodes == {512, 49152, 65535}

Codes == 0..MaxCode \cup HighCodes

Some(v) == [tag |-> "Some", val |-> v]
None    == [tag |-> "None"]

\* ClipboardFormat::try_from_u32
try_from_u32_Swapped(format) ==
    CASE format = CF_TEXT -> Some("Text")
      [] format = CF_BITMAP -> Some("Bitmap")
      [] format = CF_DIB -> Some("BitmapV5")
      [] format = CF_DIBV5 -> Some("BitmapInfo")
      [] format = CF_HDROP -> Some("DropHandle")
      [] format = CF_UNICODETEXT -> Some("UnicodeText")
      [] OTHER -> None
try_from_u32(format) ==
    CASE format = CF_TEXT -> Some("Text")
      [] format = CF_BITMAP -> Some("Bitmap")
      [] format = CF_DIB -> Some("BitmapInfo")
      [] format = CF_DIBV5 -> Some("BitmapV5")
      [] format = CF_HDROP -> Some("DropHandle")
      [] format = CF_UNICODETEXT -> Some("UnicodeText")
      [] OTHER -> None

\* impl From<ClipboardFormat> for CLIPBOARD_FORMATS, and for u32
u32_from(format) ==
    CASE format = "Text" -> CF_TEXT
      [] format = "Bitmap" -> CF_BITMAP
      [] format = "BitmapInfo" -> CF_DIB
      [] format = "BitmapV5" -> CF_DIBV5
      [] format = "DropHandle" -> CF_HDROP
      [] format = "UnicodeText" -> CF_UNICODETEXT

Format_try_from_u32 ==
    \E c \in Codes :
        /\ op' = "try_from_u32"
        /\ arg' = c
        /\ result' = try_from_u32(c)
        /\ osCalls' = <<>>
        /\ UNCHANGED <<sessVars, lockVars, clipVars, bmpVars, thrVars>>

Format_u32_from ==
    \E f \in ClipboardFormat :
        /\ op' = "u32::from"
        /\ arg' = f
        /\ result' = Ok(u32_from(f))
        /\ osCalls' = <<>>
        /\ UNCHANGED <<sessVars, lockVars, clipVars, bmpVars, thrVars>>

NextFormat == Format_try_from_u32 \/ Format_u32_from
SpecFormat == Init /\ [][NextFormat]_vars

\* C10: The format code mapping is a bijection on the six tags.  Decoding the
\* code of a tag gives the tag back; a code that decodes to a tag is that
\* tag's code; every code that is not one of the six OS identifiers decodes
\* to None (a value, not a failure).
C10_FormatCodeBijection ==
    /\ op = "u32::from" => try_from_u32(result.val) = Some(arg)
    /\ op = "try_from_u32" =>
         /\ result.tag \in {"Some", "None"}
         /\ result.tag = "Some" =>
              (result.val \in ClipboardFormat /\ u32_from(result.val) = arg)
         /\ arg \notin {u32_from(f) : f \in ClipboardFormat} => result = None

\* A known code was decoded to its tag, or an unknown one to None.
C10_Witness ==
    /\ op = "try_from_u32"
    /\ \/ (arg = CF_DIBV5 /\ result = Some("BitmapV5"))
       \/ (arg = 49152 /\ result = None)

(***************************************************************************)
(* Bitmap decode: format/bitmap.rs                                         *)
(***************************************************************************)
MaxWidth  == 3       \* bV5Width in 0..MaxWidth
MaxHeight == 2       \* bV5Height in -MaxHeight..MaxHeight

BitCounts == {4, 8, 24, 32}                 \* bV5BitCount
OsFaults  == {"none", "Locking", "InvalidObject", "Undersized", "ImageBits"}

Min(a, b) == IF a < b THEN a ELSE b
Abs(x)    == IF x < 0 THEN -x ELSE x

\* let row_byte_length = (bV5BitCount * width + 31) / 32 * 4
row_byte_length_Unpadded(bitCount, width) == (bitCount \div 8) * width
row_byte_length(bitCount, width) == ((bitCount * width + 31) \div 32) * 4

\* let should_flip = bV5Height.is_positive()
should_flip_Negative(height) == height < 0
should_flip(height) == height > 0

\* The bytes GetDIBits leaves in `raw` (a Vec of bV5SizeImage bytes): every
\* byte of the first 256 differs, so a misplaced byte shows.
RawBuffer(seed, size) == [i \in 1..size |-> (seed + i) % 256]

\* The byte length of one pixel row as GetDIBits lays it out: the row's bits
\* rounded up to a whole number of DWORDs.
DibStride(bitCount, width) == 4 * ((bitCount * width + 31) \div 32)

\* bV5SizeImage values tried for a header: none, exactly the rows, one more
\* DWORD than the rows.
ImageSizes(width, height, bitCount) ==
    LET rows == Abs(height) * DibStride(bitCount, width)
    IN  {0, rows, rows + 4}

\* Lines 46-56: copy the first width * bytes_per_pixel bytes of every stride
\* chunk of raw into the next chunk of pixels, then truncate.
Depad(raw, width, height, bitCount) ==
    LET stride == row_byte_length(bitCount, width)
        rowLen == width * (bitCount \div 8)
        total  == height * stride                      \* vec![0; ..]
        pairs  == Min(Len(raw) \div stride, total \div rowLen)   \* zip
        keep   == Min(total, width * height * (bitCount \div 8)) \* truncate
    IN  [i \in 1..keep |->
            LET k == (i - 1) \div rowLen
                j == (i - 1) % rowLen
            IN  IF k < pairs THEN raw[k * stride + j + 1] ELSE 0]

\* RgbImage::from_raw(width, height, buf): the container must hold at least
\* 3 * width * height bytes; the image keeps all of buf.
from_raw(width, height, buf) ==
    IF Len(buf) >= 3 * width * height
    THEN Some([width |-> width, height |-> height, buf |-> buf])
    ELSE None

\* image::imageops::flip_vertical_in_place: pixel rows of 3 * width bytes
\* swap with their mirror; bytes past the last row stay.
flip_vertical_in_place(img) ==
    LET rowLen == 3 * img.width
    IN  [img EXCEPT !.buf =
            [i \in 1..Len(img.buf) |->
                IF i <= rowLen * img.height
                THEN img.buf[(img.height - 1 - ((i - 1) \div rowLen)) * rowLen
                             + ((i - 1) % rowLen) + 1]
                ELSE img.buf[i]]]

\* format::bitmap::get.  hdr: the BITMAPV5HEADER fields read; raw: the
\* buffer after GetDIBits; fault: the OS call that fails, if any.
\* packed is the local `pixels` once line 56 has run (<<>> if never reached);
\* calls are the OS calls made while bitmap_info is owned by get.
bitmap_get(hdr, raw, fault) ==
    LET lock == LockedPtr_new(1, "BITMAPV5HEADER", fault # "Locking",
                              CASE fault = "InvalidObject" -> 0
                                [] fault = "Undersized" -> 40
                                [] OTHER -> size_of("BITMAPV5HEADER"))
        width  == hdr.width
        height == Abs(hdr.height)
        bytes_per_pixel == hdr.bitCount \div 8
        pixels == Depad(raw, width, height, hdr.bitCount)
        image  == from_raw(width, height, pixels)
        \* GetDC and GetDIBits, then the drops at the end of get (also run
        \* when get unwinds): the header lock, then the bitmap_info parameter
        done == lock.calls \o <<"GetDC", "GetDIBits">> \o Drop_LockedPtr
                \o Drop_LockedPtr
    IN  IF lock.res.tag # "Ok"
        THEN [res |-> lock.res, packed |-> <<>>,
              calls |-> lock.calls \o Drop_LockedPtr]
        ELSE IF fault = "ImageBits"
        THEN [res |-> Err("ImageBits"), packed |-> <<>>, calls |-> done]
        ELSE IF row_byte_length(hdr.bitCount, width) = 0
                \/ width * bytes_per_pixel = 0
        THEN [res |-> Panic("chunk size must be non-zero"), packed |-> <<>>,
              calls |-> done]
        ELSE IF image = None
        THEN [res |-> Err("InvalidImage"), packed |-> pixels, calls |-> done]
        ELSE [res |-> Ok(IF should_flip(hdr.height)
                         THEN flip_vertical_in_place(image.val)
                         ELSE image.val),
              packed |-> pixels, calls |-> done]

Decoded(hdr, seed, fault) ==
    LET out == bitmap_get(hdr, RawBuffer(seed, hdr.sizeImage), fault)
    IN  /\ op' = "bitmap::get"
        /\ arg' = [hdr |-> hdr, seed |-> seed, fault |-> fault]
        /\ result' = out.res @@ [packed |-> out.packed]
        /\ osCalls' = out.calls
        /\ UNCHANGED <<sessVars, lockVars, clipVars, thrVars>>

\* The headers, pixel data and OS faults a decode is tried on.
BitmapInputs ==
    UNION {{[hdr |-> [width |-> w, height |-> h, bitCount |-> b,
                      sizeImage |-> size],
             seed |-> 0, fault |-> fault] :
                size \in ImageSizes(w, h, b), fault \in OsFaults} :
           w \in 0..MaxWidth, h \in -MaxHeight..MaxHeight, b \in BitCounts}

\* A decode of the header the clipboard supplies.
Bitmap_get ==
    /\ op = "init"
    /\ Decoded(arg.hdr, arg.seed, arg.fault)
    /\ prev' = <<>>

\* A second decode of the same pixel rows under a header that differs from
\* the last one only in the sign of bV5Height.
Bitmap_get_negated ==
    /\ op = "bitmap::get"
    /\ prev = <<>>
    /\ Decoded([arg.hdr EXCEPT !.height = -@], arg.seed, arg.fault)
    /\ prev' = LastCall

InitBitmap ==
    /\ op = "init" /\ arg \in BitmapInputs /\ result = Ok(0) /\ osCalls = <<>>
    /\ IdleSess /\ IdleLock /\ IdleClip /\ IdleBmp /\ IdleThr
NextBitmap == Bitmap_get \/ Bitmap_get_negated
SpecBitmap == InitBitmap /\ [][NextBitmap]_vars

Bpp(hdr)    == hdr.bitCount \div 8
Stride(hdr) == DibStride(hdr.bitCount, hdr.width)
Slice(s, from, len) == [i \in 1..len |-> s[from + i]]

\* C8: Row de-padding.  For a bitmap of width w >= 1, height h and a bit
\* count b >= 8 that is a multiple of 8, whose raw buffer holds (at least)
\* the h rows of stride ceil(b*w/32)*4 bytes, the packed buffer the decode
\* builds has exactly w*h*(b/8) bytes, and its row r is the first w*(b/8)
\* bytes of raw row r: no padding byte is kept.
C8_RowDepadding ==
    (/\ op = "bitmap::get"
     /\ arg.fault = "none"
     /\ arg.hdr.width >= 1
     /\ arg.hdr.bitCount >= 8 /\ arg.hdr.bitCount % 8 = 0
     /\ arg.hdr.sizeImage >= Abs(arg.hdr.height) * Stride(arg.hdr)) =>
        LET hdr    == arg.hdr
            rowLen == hdr.width * Bpp(hdr)
            raw    == RawBuffer(arg.seed, hdr.sizeImage)
        IN  /\ result.tag \in {"Ok", "Err"}
            /\ Len(result.packed) = hdr.width * Abs(hdr.height) * Bpp(hdr)
            /\ \A r \in 0..(Abs(hdr.height) - 1) :
                  Slice(result.packed, r * rowLen, rowLen)
                      = Slice(raw, r * Stride(hdr), rowLen)

\* A decode of a two-row bitmap whose rows carry padding (3 pixels of one
\* byte in a 4-byte stride) produced its packed buffer.
C8_Witness ==
    /\ op = "bitmap::get" /\ arg.fault = "none"
    /\ arg.hdr.width = 3 /\ arg.hdr.bitCount = 8 /\ Abs(arg.hdr.height) = 2
    /\ arg.hdr.sizeImage = 8
    /\ Len(result.packed) = 6

\* C9: Height-sign flip.  Two decodes of the same raw rows under headers that
\* differ only in the sign of the height both succeed or both fail; when they
\* succeed the images have equal width and height and row r of one is row
\* height-1-r of the other.  The negative-height image keeps the raw row
\* order, the positive-height image has it reversed.
C9_HeightSignFlip ==
    (op = "bitmap::get" /\ prev # <<>>) =>
        LET a == prev.result
            b == result
            hdr == arg.hdr
            h == Abs(hdr.height)
            rowLen == 3 * hdr.width
            raw == RawBuffer(arg.seed, hdr.sizeImage)
            neg == IF hdr.height < 0 THEN b ELSE a
            pos == IF hdr.height < 0 THEN a ELSE b
        IN  /\ prev.arg.hdr = [hdr EXCEPT !.height = -@]
            /\ a.tag = b.tag
            /\ a.tag = "Ok" =>
                 /\ a.val.width = b.val.width
                 /\ a.val.height = b.val.height /\ a.val.height = h
                 /\ \A r \in 0..(h - 1) :
                       Slice(a.val.buf, r * rowLen, rowLen)
                           = Slice(b.val.buf, (h - 1 - r) * rowLen, rowLen)
                 /\ hdr.height # 0 => neg.val.buf = neg.packed
                 /\ (hdr.bitCount = 24 /\ hdr.sizeImage >= h * Stride(hdr)) =>
                       \A r \in 0..(h - 1) :
                          /\ Slice(neg.val.buf, r * rowLen, rowLen)
                                = Slice(raw, r * Stride(hdr), rowLen)
                          /\ Slice(pos.val.buf, (h - 1 - r) * rowLen, rowLen)
                                = Slice(raw, r * Stride(hdr), rowLen)

\* Both decodes of a two-row 24-bit bitmap succeeded.
C9_Witness ==
    /\ op = "bitmap::get" /\ prev # <<>>
    /\ result.tag = "Ok" /\ prev.result.tag = "Ok"
    /\ arg.hdr.bitCount = 24 /\ Abs(arg.hdr.height) = 2 /\ arg.hdr.width >= 1
    /\ arg.hdr.sizeImage = 2 * Stride(arg.hdr)

\* C21: Bitmap decode fails only with typed errors.  Once the header block
\* has passed the size test of LockedPtr::<BITMAPV5HEADER>::new, whatever the
\* header says (any width, any signed height, any bit count, those below 8
\* included, any declared image size), format::bitmap::get returns Ok(image)
\* or one of the errors Locking, InvalidObject, ImageBits, InvalidImage; it
\* never panics.
C21_TypedErrorsOnly ==
    (op = "bitmap::get" /\ arg.fault # "Undersized") =>
        \/ result.tag = "Ok"
        \/ /\ result.tag = "Err"
           /\ result.err \in {"Locking", "InvalidObject", "ImageBits",
                              "InvalidImage"}

(***************************************************************************)
(* Clipboard contents and the calls every getter shares: lib.rs            *)
(***************************************************************************)

\* A session is open: the getters and setters take &self.
OpenSess ==
    /\ cellSet = TRUE /\ weak = 1 /\ nextWindow = 2 /\ osOwner = 1
    /\ strong = [w \in Windows |-> IF w = 1 THEN 1 ELSE 0]
    /\ opened = [w \in Windows |-> IF w = 1 THEN 1 ELSE 0]
    /\ closeCalls = [w \in Windows |-> 0]

EmptyClipboard == [f \in ClipboardFormat |-> NoBlock]

\* ClipboardHandleInner::is_clipboard_format_available
is_clipboard_format_available(format) == clip[format] # NoBlock

\* ClipboardHandleInner::get_clipboard_data
get_clipboard_data(format, fault) ==
    IF fault = "GetClipboard" \/ clip[format] = NoBlock
    THEN [res |-> Err("GetClipboard"), calls |-> <<"GetClipboardData">>]
    ELSE [res |-> Ok(clip[format]), calls |-> <<"GetClipboardData">>]

(***************************************************************************)
(* UTF-16 text: lib.rs set_string, format/string.rs get_unicode            *)
(***************************************************************************)
MaxStrLen == 2       \* chars in a string handed to set_string
MaxSlack  == 1       \* u16 units by which GlobalSize may exceed the request

\* Unicode scalar values used in strings: NUL, 'A', e-acute, U+1F600.
Chars == {0, 65, 233, 128512}
\* What the units past the requested size of a block may hold.
FillerUnits == {0, 65}

SeqsUpTo(S, n) == UNION {[1..k -> S] : k \in 0..n}
Strings == SeqsUpTo(Chars, MaxStrLen)

IsHighSurrogate(u) == u >= 55296 /\ u <= 56319
IsLowSurrogate(u)  == u >= 56320 /\ u <= 57343
IsSurrogate(u)     == u >= 55296 /\ u <= 57343

\* str::encode_utf16: one unit per BMP char, a surrogate pair above it.
RECURSIVE encode_utf16(_)
encode_utf16(str) ==
    IF str = <<>> THEN <<>>
    ELSE LET c == Head(str)
         IN  (IF c < 65536 THEN <<c>>
              ELSE <<55296 + ((c - 65536) \div 1024),
                     56320 + ((c - 65536) % 1024)>>)
             \o encode_utf16(Tail(str))

\* Wtf8Buf::from_ill_formed_utf16(units).into_string_lossy(): surrogate pairs
\* combine, a surrogate without its partner becomes U+FFFD.
RECURSIVE from_ill_formed_utf16_lossy(_)
from_ill_formed_utf16_lossy(units) ==
    IF units = <<>> THEN <<>>
    ELSE LET u == Head(units)
         IN  IF /\ IsHighSurrogate(u) /\ Len(units) >= 2
                /\ IsLowSurrogate(units[2])
             THEN <<65536 + (u - 55296) * 1024 + (units[2] - 56320)>>
                  \o from_ill_formed_utf16_lossy(Tail(Tail(units)))
             ELSE <<IF IsSurrogate(u) THEN 65533 ELSE u>>
                  \o from_ill_formed_utf16_lossy(Tail(units))

\* A movable block as the OS keeps it: the bytes requested, the bytes
\* GlobalSize reports, and its content as 16-bit units.
MemBlock(alloc, size, units) ==
    [kind |-> "mem", alloc |-> alloc, size |-> size, units |-> units]

\* ClipboardHandleInner::set_string_impl.  fault: the OS call that fails.
\* block: what the clipboard holds for UnicodeText afterwards, slack units
\* of filler past the request.
set_string_impl(string, fault, slack, filler) ==
    LET utf16_bytes == encode_utf16(string)
        memory_len  == Len(utf16_bytes)
        memory == LockedPtr_alloc(1, "u16", memory_len + 1,
                                  fault # "Allocation", fault # "Locking")
        slice  == utf16_bytes \o <<0>>
    IN  IF memory.res.tag # "Ok"
        THEN [res |-> memory.res, calls |-> memory.calls, block |-> NoBlock]
        ELSE IF fault = "SetClipboard"
        THEN [res |-> Err("SetClipboard"),
              calls |-> memory.calls \o <<"SetClipboardData">> \o Drop_LockedPtr,
              block |-> NoBlock]
        ELSE [res |-> Ok(<<>>),
              calls |-> memory.calls \o <<"SetClipboardData">> \o Drop_LockedPtr,
              block |-> MemBlock(2 * (memory_len + 1),
                                 2 * (memory_len + 1 + slack),
                                 slice \o [i \in 1..slack |-> filler])]

\* let len = locked_str.size()? / size_of::<u16>() - 1
unicode_len_WithTerminator(size) == size \div 2
unicode_len_Bytes(size) == size - 1
unicode_len(size) == (size \div 2) - 1

\* format::string::get_unicode.  fault "InvalidObject" makes the GlobalSize
\* of LockedPtr::new report 0, "Size" the one of size().  len is the number
\* of code units decoded; a usize subtraction that goes below zero panics
\* (overflow checks on) or wraps to a length far beyond the block.
get_unicode(block, fault) ==
    LET locked_str == LockedPtr_new(1, "u16", fault # "Locking",
                          IF fault = "InvalidObject" THEN 0 ELSE block.size)
        len == unicode_len(block.size)
        calls == locked_str.calls \o <<"GlobalSize">> \o Drop_LockedPtr
    IN  IF locked_str.res.tag # "Ok"
        THEN [res |-> locked_str.res, calls |-> locked_str.calls, len |-> 0]
        ELSE IF fault = "Size"
        THEN [res |-> Err("InvalidObject"), calls |-> calls, len |-> 0]
        ELSE IF len < 0
        THEN [res |-> Panic("attempt to subtract with overflow"),
              calls |-> calls, len |-> len]
        ELSE [res |-> Ok(from_ill_formed_utf16_lossy(SubSeq(block.units, 1, len))),
              calls |-> calls, len |-> len]

\* Result<T>::map(Some)
MapSome(out) ==
    IF out.res.tag = "Ok" THEN [out EXCEPT !.res = Ok(Some(out.res.val))]
    ELSE out

\* ClipboardHandleInner::string_unicode
string_unicode(fault) ==
    LET handle == get_clipboard_data("UnicodeText", fault)
        text   == get_unicode(handle.res.val, fault)
    IN  IF ~is_clipboard_format_available("UnicodeText")
        THEN [res |-> Ok(None), calls |-> <<"IsClipboardFormatAvailable">>]
        ELSE IF handle.res.tag # "Ok"
        THEN [res |-> handle.res,
              calls |-> <<"IsClipboardFormatAvailable">> \o handle.calls]
        ELSE MapSome([text EXCEPT !.calls =
                        <<"IsClipboardFormatAvailable">> \o handle.calls \o @])

SetFaults == {"none", "Allocation", "Locking", "SetClipboard"}
GetFaults == {"none", "GetClipboard", "Locking", "InvalidObject", "Size"}

Text_set_string ==
    \E fault \in SetFaults, slack \in 0..MaxSlack, filler \in FillerUnits :
        LET out == set_string_impl(arg.string, fault, slack, filler)
        IN  /\ op = "init"
            /\ op' = "set_string"
            /\ arg' = [string |-> arg.string, fault |-> fault]
            /\ result' = out.res
            /\ osCalls' = out.calls
            /\ clip' = IF out.res.tag = "Ok"
                       THEN [clip EXCEPT !["UnicodeText"] = out.block]
                       ELSE clip
            /\ UNCHANGED <<sessVars, lockVars, bmpVars, thrVars>>

Text_string_unicode ==
    \E fault \in GetFaults :
        LET out == string_unicode(fault)
        IN  /\ op \in {"init", "set_string"}
            /\ op' = "string_unicode"
            /\ arg' = [fault |-> fault]
            /\ result' = out.res
            /\ osCalls' = out.calls
            /\ prev' = LastCall
            /\ UNCHANGED <<sessVars, lockVars, clipVars, thrVars>>

InitText ==
    /\ op = "init" /\ arg \in [string : Strings] /\ result = Ok(0)
    /\ osCalls = <<>>
    /\ OpenSess /\ IdleLock /\ IdleClip /\ IdleBmp /\ IdleThr
NextText == Text_set_string \/ Text_string_unicode
SpecText == InitText /\ [][NextText]_vars

\* C3: Round-trip text.  When set_string(S) succeeded and the OS keeps the
\* block unchanged and reports its size as the allocated size, a
\* string_unicode() on the same session that meets no OS failure returns
\* Ok(Some(S)): for the empty string, strings with NUL and chars outside
\* the BMP alike.
C3_RoundTripText ==
    (/\ op = "string_unicode" /\ arg.fault = "none"
     /\ prev.op = "set_string" /\ prev.result.tag = "Ok"
     /\ clip["UnicodeText"].size = clip["UnicodeText"].alloc) =>
        result = Ok(Some(prev.arg.string))

\* A string with a char outside the BMP came back from the clipboard.
C3_Witness ==
    /\ op = "string_unicode" /\ arg.fault = "none"
    /\ prev.op = "set_string" /\ prev.result.tag = "Ok"
    /\ clip["UnicodeText"].size = clip["UnicodeText"].alloc
    /\ prev.arg.string = <<128512, 233>>
    /\ result = Ok(Some(<<128512, 233>>))

(***************************************************************************)
(* File lists: lib.rs set_files, format/files.rs                           *)
(***************************************************************************)
MaxPaths == 2              \* paths in a list handed to set_files
DROPFILES_Size == 20       \* std::mem::size_of::<DROPFILES>()

\* Paths tried, as sequences of code points: "", "C", "C\", "C\a", U+1F600,
\* "C<NUL>a", and one that holds an unpaired surrogate (a Windows path that
\* is not valid Unicode, for which Path::to_str is None).
SamplePaths ==
    {<<>>, <<67>>, <<67, 92>>, <<67, 92, 97>>, <<128512>>, <<67, 0, 97>>,
     <<56320, 97>>}
PathLists == SeqsUpTo(SamplePaths, MaxPaths)

\* Path::to_str: the path as a string, if it is valid Unicode.
to_str(path) ==
    IF \E i \in 1..Len(path) : IsSurrogate(path[i]) THEN None ELSE Some(path)

\* The loop of set_files_impl (lines 174-185): every path that is a string,
\* encoded and null-terminated.
RECURSIVE EncodedPaths_NoTerminator(_)
EncodedPaths_NoTerminator(paths) ==
    IF paths = <<>> THEN <<>>
    ELSE (IF to_str(Head(paths)) = None THEN <<>>
          ELSE encode_utf16(Head(paths)))
         \o EncodedPaths_NoTerminator(Tail(paths))
RECURSIVE EncodedPaths(_)
EncodedPaths(paths) ==
    IF paths = <<>> THEN <<>>
    ELSE (IF to_str(Head(paths)) = None THEN <<>>
          ELSE encode_utf16(Head(paths)) \o <<0>>)
         \o EncodedPaths(Tail(paths))

\* The DROPFILES header set_files_impl_2 writes, and the block it fills.
DropBlock(alloc, units) ==
    [kind |-> "drop", alloc |-> alloc, size |-> alloc,
     hdr |-> [pFiles |-> DROPFILES_Size, fNC |-> 1, fWide |-> 1],
     units |-> units]

\* ClipboardHandleInner::set_files_impl_2
set_files_impl_2_UnlockFirst(paths_structure, fault) ==
    LET memory == LockedPtr_alloc(1, "u8",
                      DROPFILES_Size + Len(paths_structure) * size_of("u16"),
                      fault # "Allocation", fault # "Locking")
        calls == memory.calls \o Drop_LockedPtr \o <<"SetClipboardData">>
    IN  IF memory.res.tag # "Ok"
        THEN [res |-> memory.res, calls |-> memory.calls, block |-> NoBlock]
        ELSE IF fault = "SetClipboard"
        THEN [res |-> Err("SetClipboard"), calls |-> calls, block |-> NoBlock]
        ELSE [res |-> Ok(<<>>), calls |-> calls,
              block |-> DropBlock(memory.res.val.size, paths_structure)]
set_files_impl_2(paths_structure, fault) ==
    LET memory == LockedPtr_alloc(1, "u8",
                      DROPFILES_Size + Len(paths_structure) * size_of("u16"),
                      fault # "Allocation", fault # "Locking")
        calls == memory.calls \o <<"SetClipboardData">> \o Drop_LockedPtr
    IN  IF memory.res.tag # "Ok"
        THEN [res |-> memory.res, calls |-> memory.calls, block |-> NoBlock]
        ELSE IF fault = "SetClipboard"
        THEN [res |-> Err("SetClipboard"), calls |-> calls, block |-> NoBlock]
        ELSE [res |-> Ok(<<>>), calls |-> calls,
              block |-> DropBlock(memory.res.val.size, paths_structure)]

\* ClipboardHandleInner::set_files_impl: the encoded paths, then the second
\* null terminator of the list.
set_files_impl(paths, fault) ==
    set_files_impl_2(EncodedPaths(paths) \o <<0>>, fault)

\* The strings DragQueryFileW finds in a wide DROPFILES block: it walks the
\* null-terminated strings from pFiles on and stops at the first empty one.
RECURSIVE DropStrings(_)
DropStrings(units) ==
    IF units = <<>> \/ Head(units) = 0 THEN <<>>
    ELSE LET zeros == {i \in 1..Len(units) : units[i] = 0}
             end == IF zeros = {} THEN Len(units) + 1
                    ELSE CHOOSE i \in zeros : \A j \in zeros : i <= j
         IN  <<SubSeq(units, 1, end - 1)>>
             \o DropStrings(SubSeq(units, end + 1, Len(units)))

\* What DragQueryFileW answers for a drop handle: the file count (index
\* u32::MAX) and, per file, the length it reports for an empty buffer and
\* the units it writes into a buffer that is large enough.  Here for the
\* strings of a block; fault: the DragQueryFileW call the OS fails, if any.
DropAnswers(block, fault) ==
    LET names == DropStrings(block.units)
    IN  [count |-> Len(names),
         files |-> [i \in 1..Len(names) |->
            [needed |-> IF fault = [kind |-> "PathLength", idx |-> i - 1]
                        THEN 0 ELSE Len(names[i]),
             written |-> IF fault = [kind |-> "FilePath", idx |-> i - 1]
                         THEN <<>> ELSE names[i]]]]

\* let written_len = DragQueryFileW(self.0, idx, &mut buf): buf has
\* needed_len + 1 units, the OS writes at most needed_len of them and a
\* terminator, and returns the units written.
written_len_of(file) == Min(Len(file.written), file.needed)

\* The loop of DropHandle::get_files from index idx on (lines 32-57).
RECURSIVE get_files_from_Skip(_, _)
get_files_from_Skip(os, idx) ==
    IF idx >= os.count THEN Ok(<<>>)
    ELSE LET file == os.files[idx + 1]
             path == from_ill_formed_utf16_lossy(
                         SubSeq(file.written, 1, written_len_of(file)))
             rest == get_files_from_Skip(os, idx + 1)
         IN  IF file.needed = 0 \/ written_len_of(file) = 0 THEN rest
             ELSE IF rest.tag # "Ok" THEN rest
             ELSE Ok(<<path>> \o rest.val)
RECURSIVE get_files_from(_, _)
get_files_from(os, idx) ==
    IF idx >= os.count THEN Ok(<<>>)
    ELSE LET needed_len == os.files[idx + 1].needed
             written_len == written_len_of(os.files[idx + 1])
             path == from_ill_formed_utf16_lossy(
                         SubSeq(os.files[idx + 1].written, 1, written_len))
             rest == get_files_from(os, idx + 1)
         IN  IF needed_len = 0
             THEN [tag |-> "Err", err |-> "PathLength", idx |-> idx]
             ELSE IF written_len = 0
             THEN [tag |-> "Err", err |-> "FilePath", idx |-> idx]
             ELSE IF rest.tag # "Ok" THEN rest
             ELSE Ok(<<path>> \o rest.val)

\* DropHandle::get_files, on the answers of the OS.
DropHandle_get_files(os) ==
    LET file_count == os.count
    IN  IF file_count = 0 THEN Err("PathCount")
        ELSE get_files_from(os, 0)

\* DropHandle::get_files, on a DROPFILES block.
get_files(block, fault) == DropHandle_get_files(DropAnswers(block, fault))

\* format::files::get
files_get(block, fault) ==
    LET locked_hdrop == LockedPtr_new(1, "unit", fault.kind # "Locking",
                            IF fault.kind = "InvalidObject" THEN 0
                            ELSE block.size)
    IN  IF locked_hdrop.res.tag # "Ok"
        THEN [res |-> locked_hdrop.res, calls |-> locked_hdrop.calls]
        ELSE [res |-> get_files(block, fault),
              calls |-> locked_hdrop.calls \o <<"DragQueryFileW">>
                        \o Drop_LockedPtr]

\* ClipboardHandleInner::files
files(fault) ==
    LET handle == get_clipboard_data("DropHandle", fault.kind)
        list   == files_get(handle.res.val, fault)
    IN  IF ~is_clipboard_format_available("DropHandle")
        THEN [res |-> Ok(None), calls |-> <<"IsClipboardFormatAvailable">>]
        ELSE IF handle.res.tag # "Ok"
        THEN [res |-> handle.res,
              calls |-> <<"IsClipboardFormatAvailable">> \o handle.calls]
        ELSE MapSome([list EXCEPT !.calls =
                        <<"IsClipboardFormatAvailable">> \o handle.calls \o @])

FileFaults ==
    {[kind |-> k, idx |-> 0] :
        k \in {"none", "GetClipboard", "Locking", "InvalidObject"}}
    \cup {[kind |-> k, idx |-> i] :
            k \in {"PathLength", "FilePath"}, i \in 0..(MaxPaths - 1)}

Files_set_files ==
    \E fault \in SetFaults :
        LET out == set_files_impl(arg.paths, fault)
        IN  /\ op = "init"
            /\ op' = "set_files"
            /\ arg' = [paths |-> arg.paths, fault |-> fault]
            /\ result' = out.res
            /\ osCalls' = out.calls
            /\ clip' = IF out.res.tag = "Ok"
                       THEN [clip EXCEPT !["DropHandle"] = out.block]
                       ELSE clip
            /\ UNCHANGED <<sessVars, lockVars, bmpVars, thrVars>>

Files_files ==
    \E fault \in FileFaults :
        LET out == files(fault)
        IN  /\ op \in {"init", "set_files"}
            /\ op' = "files"
            /\ arg' = [fault |-> fault]
            /\ result' = out.res
            /\ osCalls' = out.calls
            /\ prev' = LastCall
            /\ UNCHANGED <<sessVars, lockVars, clipVars, thrVars>>

InitFiles ==
    /\ op = "init" /\ arg \in [paths : PathLists] /\ result = Ok(0)
    /\ osCalls = <<>>
    /\ OpenSess /\ IdleLock /\ IdleClip /\ IdleBmp /\ IdleThr
NextFiles == Files_set_files \/ Files_files
SpecFiles == InitFiles /\ [][NextFiles]_vars

\* A files() that met no OS failure, after a set_files(P) that succeeded on
\* a list P of path strings.
RoundTripFiles ==
    /\ op = "files" /\ arg.fault.kind = "none"
    /\ prev.op = "set_files" /\ prev.result.tag = "Ok"
    /\ \A i \in 1..Len(prev.arg.paths) : to_str(prev.arg.paths[i]) # None

\* C4 as stated: for any ordered list P of path strings, set_files(P)
\* followed by files() returns Ok(Some(P)).
C4_RoundTripAnyList ==
    RoundTripFiles => result = Ok(Some(prev.arg.paths))

\* C4, amended: for any non-empty ordered list P of path strings that are
\* themselves non-empty and hold no NUL character, set_files(P) followed by
\* files() returns Ok(Some(P)): same length, order and content, duplicates
\* and trailing-separator paths included.
C4_RoundTripFiles ==
    (/\ RoundTripFiles
     /\ prev.arg.paths # <<>>
     /\ \A i \in 1..Len(prev.arg.paths) :
           /\ prev.arg.paths[i] # <<>>
           /\ \A j \in 1..Len(prev.arg.paths[i]) : prev.arg.paths[i][j] # 0) =>
        result = Ok(Some(prev.arg.paths))

\* The same trailing-separator directory path, twice, came back.
C4_Witness ==
    /\ RoundTripFiles
    /\ prev.arg.paths = <<<<67, 92>>, <<67, 92>>>>
    /\ result = Ok(Some(<<<<67, 92>>, <<67, 92>>>>))

\* C5: Double termination.  For every path list given to set_files, the
\* empty list included, the UTF-16 payload after the DROPFILES header ends
\* with two consecutive zero units, and holds one zero unit after each
\* encoded path.
C5_DoubleTermination ==
    (op = "set_files" /\ result.tag = "Ok") =>
        LET payload == clip["DropHandle"].units
            n == Len(payload)
        IN  /\ n >= 2 /\ payload[n] = 0 /\ payload[n - 1] = 0
            /\ n = Len(EncodedPaths_NoTerminator(arg.paths))
                   + Cardinality({i \in 1..Len(arg.paths) :
                                     to_str(arg.paths[i]) # None}) + 1

(***************************************************************************)
(* The getters on a clipboard filled by other programs: lib.rs string,     *)
(* string_unicode, files, image; format/string.rs get                      *)
(***************************************************************************)

\* A block of single bytes (CF_TEXT).
TextBlock(bytes) == MemBlock(Len(bytes), Len(bytes), bytes)

IsCont(b) == b >= 128 /\ b <= 191

\* CStr::to_str: the bytes as UTF-8, None if they are not valid UTF-8.
RECURSIVE utf8_decode(_)
utf8_decode(bytes) ==
    IF bytes = <<>> THEN Some(<<>>)
    ELSE LET b == Head(bytes)
             n == IF b < 128 THEN 1
                  ELSE IF b >= 194 /\ b <= 223 THEN 2
                  ELSE IF b >= 224 /\ b <= 239 THEN 3
                  ELSE IF b >= 240 /\ b <= 244 THEN 4
                  ELSE 0
             cp == CASE n = 1 -> b
                     [] n = 2 -> (b - 192) * 64 + (bytes[2] - 128)
                     [] n = 3 -> (b - 224) * 4096 + (bytes[2] - 128) * 64
                                 + (bytes[3] - 128)
                     [] n = 4 -> (b - 240) * 262144 + (bytes[2] - 128) * 4096
                                 + (bytes[3] - 128) * 64 + (bytes[4] - 128)
             wellFormed ==
                 /\ n >= 1 /\ Len(bytes) >= n
                 /\ \A i \in 2..n : IsCont(bytes[i])
                 /\ n = 3 => (cp >= 2048 /\ ~IsSurrogate(cp))
                 /\ n = 4 => (cp >= 65536 /\ cp <= 1114111)
             rest == utf8_decode(SubSeq(bytes, n + 1, Len(bytes)))
         IN  IF ~wellFormed \/ rest = None THEN None
             ELSE Some(<<cp>> \o rest.val)

\* What lies behind a block, for a read that runs off its end: the bytes up
\* to the next zero byte, or unmapped memory.
Beyond ==
    {[mapped |-> TRUE, bytes |-> <<>>], [mapped |-> TRUE, bytes |-> <<65>>],
     [mapped |-> FALSE, bytes |-> <<>>]}

\* format::string::get.  CStr::from_ptr takes the bytes before the first
\* zero byte; it does not know where the block ends.  read: the number of
\* bytes the scan looked at, counted from offset 0.
string_get(block, fault, beyond) ==
    LET locked_str == LockedPtr_new(1, "u8", fault # "Locking",
                          IF fault = "InvalidObject" THEN 0 ELSE block.size)
        zeros == {i \in 1..Len(block.units) : block.units[i] = 0}
        c_str == IF zeros = {} THEN block.units \o beyond.bytes
                 ELSE SubSeq(block.units, 1,
                             (CHOOSE i \in zeros : \A j \in zeros : i <= j) - 1)
        text  == utf8_decode(c_str)
        calls == locked_str.calls \o Drop_LockedPtr
    IN  IF locked_str.res.tag # "Ok"
        THEN [res |-> locked_str.res, calls |-> locked_str.calls, read |-> 0]
        ELSE IF zeros = {} /\ ~beyond.mapped
        THEN [res |-> [tag |-> "Crash"], calls |-> locked_str.calls,
              read |-> Len(c_str) + 1]
        ELSE IF text = None
        THEN [res |-> Err("InvalidString"), calls |-> calls,
              read |-> Len(c_str) + 1]
        ELSE [res |-> Ok(text.val), calls |-> calls, read |-> Len(c_str) + 1]

\* A getter's first lines: Ok(None) if the format is missing, the
\* GetClipboard error if the handle is, else the codec's result in Some.
Getter(format, fault, decoded) ==
    LET handle == get_clipboard_data(format, fault)
    IN  IF ~is_clipboard_format_available(format)
        THEN [res |-> Ok(None), calls |-> <<"IsClipboardFormatAvailable">>]
        ELSE IF handle.res.tag # "Ok"
        THEN [res |-> handle.res,
              calls |-> <<"IsClipboardFormatAvailable">> \o handle.calls]
        ELSE MapSome([decoded EXCEPT !.calls =
                        <<"IsClipboardFormatAvailable">> \o handle.calls \o @])

\* ClipboardHandleInner::string
string(fault, beyond) ==
    Getter("Text", fault, string_get(clip["Text"], fault, beyond))

\* The guard of ClipboardHandleInner::image (lines 220-222).
image_unavailable_Both ==
    /\ ~is_clipboard_format_available("Bitmap")
    /\ ~is_clipboard_format_available("BitmapInfo")
image_unavailable ==
    \/ ~is_clipboard_format_available("Bitmap")
    \/ ~is_clipboard_format_available("BitmapInfo")

\* ClipboardHandleInner::image.  The header format::bitmap::get locks is
\* taken to be the one in the BitmapInfo block.
image(fault) ==
    LET asked == IF is_clipboard_format_available("Bitmap")
                 THEN <<"IsClipboardFormatAvailable",
                        "IsClipboardFormatAvailable">>
                 ELSE <<"IsClipboardFormatAvailable">>
        hbitmap == get_clipboard_data("Bitmap", fault)
        info == get_clipboard_data("BitmapInfo",
                    IF fault = "GetClipboardInfo" THEN "GetClipboard" ELSE "none")
        bitmap_info == LockedPtr_new(1, "BITMAPINFO", fault # "Locking",
                           IF fault = "InvalidObject" THEN 0
                           ELSE info.res.val.size)
        decoded == bitmap_get(info.res.val.hdr,
                       RawBuffer(hbitmap.res.val.seed,
                                 info.res.val.hdr.sizeImage),
                       IF fault = "ImageBits" THEN fault ELSE "none")
    IN  IF image_unavailable
        THEN [res |-> Ok(None), calls |-> asked]
        ELSE IF hbitmap.res.tag # "Ok"
        THEN [res |-> hbitmap.res, calls |-> asked \o hbitmap.calls]
        ELSE IF info.res.tag # "Ok"
        THEN [res |-> info.res,
              calls |-> asked \o hbitmap.calls \o info.calls]
        ELSE IF bitmap_info.res.tag # "Ok"
        THEN [res |-> bitmap_info.res,
              calls |-> asked \o hbitmap.calls \o info.calls
                        \o bitmap_info.calls]
        ELSE MapSome([res |-> decoded.res,
                      calls |-> asked \o hbitmap.calls \o info.calls
                                \o bitmap_info.calls \o decoded.calls])

ImageFaults ==
    {"none", "GetClipboard", "GetClipboardInfo", "Locking", "InvalidObject",
     "ImageBits"}

\* What other programs may have left on the clipboard, per format.
SampleBlocks(format) ==
    {NoBlock} \cup
    CASE format = "Text" ->
            {TextBlock(<<72, 105, 0>>), TextBlock(<<195, 169, 0, 65>>),
             TextBlock(<<255, 0>>), TextBlock(<<65>>)}
      [] format = "UnicodeText" ->
            {MemBlock(4, 4, <<65, 0>>), MemBlock(6, 6, <<56320, 66, 0>>)}
      [] format = "DropHandle" ->
            {DropBlock(DROPFILES_Size + 8, <<67, 92, 0, 0>>)}
      [] format = "Bitmap" -> {[kind |-> "bitmap", seed |-> 0]}
      [] format = "BitmapInfo" ->
            {[kind |-> "mem", alloc |-> 124, size |-> 124,
              hdr |-> [width |-> 1, height |-> 2, bitCount |-> 24,
                       sizeImage |-> 8]]}
      [] OTHER -> {}

Returned(fault, out) ==
    /\ arg' = [fault |-> fault]
    /\ result' = out.res
    /\ osCalls' = out.calls
    /\ UNCHANGED <<sessVars, lockVars, clipVars, bmpVars, thrVars>>

Get_string ==
    \E fault \in GetFaults \ {"Size"}, beyond \in Beyond :
        /\ op' = "string"
        /\ Returned(fault, string(fault, beyond))
Get_string_unicode ==
    \E fault \in GetFaults :
        /\ op' = "string_unicode"
        /\ Returned(fault, string_unicode(fault))
Get_files ==
    \E fault \in FileFaults :
        /\ op' = "files"
        /\ Returned(fault, files(fault))
Get_image ==
    \E fault \in ImageFaults :
        /\ op' = "image"
        /\ Returned(fault, image(fault))

InitGet ==
    /\ IdleCall /\ OpenSess /\ IdleLock /\ IdleBmp /\ IdleThr
    /\ \E t \in SampleBlocks("Text"), u \in SampleBlocks("UnicodeText"),
          d \in SampleBlocks("DropHandle"), b \in SampleBlocks("Bitmap"),
          i \in SampleBlocks("BitmapInfo") :
            clip = [f \in ClipboardFormat |->
                       CASE f = "Text" -> t
                         [] f = "UnicodeText" -> u
                         [] f = "DropHandle" -> d
                         [] f = "Bitmap" -> b
                         [] f = "BitmapInfo" -> i
                         [] OTHER -> NoBlock]
NextGet == Get_string \/ Get_string_unicode \/ Get_files \/ Get_image
SpecGet == InitGet /\ [][NextGet]_vars

\* The formats a getter needs on the clipboard.
Required(getter) ==
    CASE getter = "string" -> {"Text"}
      [] getter = "string_unicode" -> {"UnicodeText"}
      [] getter = "files" -> {"DropHandle"}
      [] getter = "image" -> {"Bitmap", "BitmapInfo"}

\* C6: Availability is consistent with get.  When the OS reports a format a
\* getter needs as not available (for image: Bitmap or BitmapInfo), the
\* getter returns Ok(None), never an error, and issues no OS call other than
\* IsClipboardFormatAvailable: no GetClipboardData, no GlobalLock.
C6_UnavailableIsNone ==
    (/\ op \in {"string", "string_unicode", "files", "image"}
     /\ \E f \in Required(op) : clip[f] = NoBlock) =>
        /\ result = Ok(None)
        /\ Count(osCalls, "GetClipboardData") = 0
        /\ Count(osCalls, "GlobalLock") = 0
        /\ \A i \in 1..Len(osCalls) : osCalls[i] = "IsClipboardFormatAvailable"

\* image() returned Ok(None) with a bitmap but no BitmapInfo on the
\* clipboard.
C6_Witness ==
    /\ op = "image" /\ result = Ok(None)
    /\ clip["Bitmap"] # NoBlock /\ clip["BitmapInfo"] = NoBlock
    /\ Len(osCalls) = 2

(***************************************************************************)
(* Format enumeration: lib.rs available_formats, error/windows.rs          *)
(***************************************************************************)
MaxFormats == 3      \* formats the OS enumeration yields before it returns 0

\* Format codes on the clipboard: the six known ones, CF_METAFILEPICT (3) and
\* a registered format.
EnumCodes == {CF_TEXT, CF_BITMAP, 3, CF_DIB, CF_UNICODETEXT, CF_HDROP,
              CF_DIBV5, 49152}
\* GetLastError after the enumeration returned 0: ERROR_SUCCESS,
\* ERROR_ACCESS_DENIED, ERROR_CLIPBOARD_NOT_OPEN.
LastErrors == {0, 5, 1418}

\* The sequences without repetition of at most n elements of S.
DistinctSeqs(S, n) ==
    {s \in SeqsUpTo(S, n) : \A i, j \in 1..Len(s) : s[i] = s[j] => i = j}

ErrCode(e, code) == [tag |-> "Err", err |-> e, code |-> code]

\* EnumClipboardFormats(format): the first code for 0, else the code that
\* follows format on the clipboard; 0 when there is none.
EnumClipboardFormats(codes, format) ==
    LET at == IF format = 0 THEN 0
              ELSE CHOOSE i \in 1..Len(codes) : codes[i] = format
    IN  IF at < Len(codes) THEN codes[at + 1] ELSE 0

\* WindowsError::try_from_last_error: None if the last error code is 0.
try_from_last_error_Never(last_error) == None
try_from_last_error(last_error) ==
    IF last_error # 0 THEN Some(last_error) ELSE None

\* Lines 249-251: push the format if the code is a known one.
collect_Front(formats, last_format) ==
    IF try_from_u32(last_format) # None
    THEN <<try_from_u32(last_format).val>> \o formats
    ELSE formats
collect(formats, last_format) ==
    IF try_from_u32(last_format) # None
    THEN Append(formats, try_from_u32(last_format).val)
    ELSE formats

\* The loop of ClipboardHandleInner::available_formats (lines 241-252) from
\* one iteration on.  os: the codes the OS enumerates and the last-error code
\* it leaves when it returns 0; calls: the OS calls made so far.
RECURSIVE available_formats_loop(_, _, _, _)
available_formats_loop(os, formats, last_format, calls) ==
    LET next == EnumClipboardFormats(os.codes, last_format)
        made == Append(calls, "EnumClipboardFormats")
    IN  IF next = 0
        THEN IF try_from_last_error(os.lastError) # None
             THEN [res |-> ErrCode("EnumClipboard",
                                   try_from_last_error(os.lastError).val),
                   calls |-> made]
             ELSE [res |-> Ok(formats), calls |-> made]
        ELSE available_formats_loop(os, collect(formats, next), next, made)

\* ClipboardHandleInner::available_formats
available_formats(os) == available_formats_loop(os, <<>>, 0, <<>>)

EnumInputs == [codes : DistinctSeqs(EnumCodes, MaxFormats),
               lastError : LastErrors]

Enum_available_formats ==
    LET out == available_formats(arg)
    IN  /\ op = "init"
        /\ op' = "available_formats"
        /\ arg' = arg
        /\ result' = out.res
        /\ osCalls' = out.calls
        /\ UNCHANGED <<sessVars, lockVars, clipVars, bmpVars, thrVars>>

InitEnum ==
    /\ op = "init" /\ arg \in EnumInputs /\ result = Ok(0) /\ osCalls = <<>>
    /\ OpenSess /\ IdleLock /\ IdleClip /\ IdleBmp /\ IdleThr
NextEnum == Enum_available_formats
SpecEnum == InitEnum /\ [][NextEnum]_vars

\* The tags of the known codes among codes, in the order of codes.
RECURSIVE KnownOf(_)
KnownOf(codes) ==
    IF codes = <<>> THEN <<>>
    ELSE (IF Head(codes) \in {u32_from(f) : f \in ClipboardFormat}
          THEN <<CHOOSE f \in ClipboardFormat : u32_from(f) = Head(codes)>>
          ELSE <<>>)
         \o KnownOf(Tail(codes))

\* C11: Enumeration filters and preserves order.  When the OS yields the
\* codes c1..cn and then signals exhaustion without error, available_formats
\* returns Ok of exactly the known formats among c1..cn, in OS order; unknown
\* codes are skipped, cause no error and do not stop the enumeration: every
\* code is asked for, n + 1 enumeration calls in all.
C11_EnumerationFilters ==
    (op = "available_formats" /\ arg.lastError = 0) =>
        /\ result = Ok(KnownOf(arg.codes))
        /\ Len(osCalls) = Len(arg.codes) + 1

\* An enumeration with an unknown code between two known ones.
C11_Witness ==
    /\ op = "available_formats" /\ arg.lastError = 0
    /\ arg.codes = <<CF_UNICODETEXT, 49152, CF_TEXT>>
    /\ result = Ok(<<"UnicodeText", "Text">>)

\* C18: Enumeration distinguishes exhaustion from failure.  When the OS
\* enumeration call returns 0, available_formats returns Ok(the known formats
\* seen so far) if and only if no last-error code is set, and
\* Err(EnumClipboard(code)), which carries no list, if one is set; either way
\* the call that returned 0 is the last enumeration call.
C18_ExhaustionOrFailure ==
    op = "available_formats" =>
        /\ (result.tag = "Ok") <=> (arg.lastError = 0)
        /\ result.tag = "Ok" => result.val = KnownOf(arg.codes)
        /\ arg.lastError # 0 => result = ErrCode("EnumClipboard", arg.lastError)
        /\ Len(osCalls) = Len(arg.codes) + 1
        /\ \A i \in 1..Len(osCalls) : osCalls[i] = "EnumClipboardFormats"

\* The enumeration failed after it had yielded a known format.
C18_Witness ==
    /\ op = "available_formats"
    /\ arg = [codes |-> <<CF_TEXT>>, lastError |-> 5]
    /\ result = ErrCode("EnumClipboard", 5)
    /\ Len(osCalls) = 2

(***************************************************************************)
(* CF_TEXT decode on blocks of every content: format/string.rs get         *)
(***************************************************************************)
MaxBytes == 3        \* bytes in a CF_TEXT block

\* Bytes of a block: NUL, 'A', the two bytes of e-acute in UTF-8, and 0xFF.
TextBytes == {0, 65, 195, 169, 255}
StrFaults == {"none", "Locking", "InvalidObject"}

StrInputs == [block : {TextBlock(b) : b \in SeqsUpTo(TextBytes, MaxBytes)},
              fault : StrFaults, beyond : Beyond]

Str_get ==
    LET out == string_get(arg.block, arg.fault, arg.beyond)
    IN  /\ op = "init"
        /\ op' = "string::get"
        /\ arg' = arg
        /\ result' = out.res @@ [read |-> out.read]
        /\ osCalls' = out.calls
        /\ UNCHANGED <<sessVars, lockVars, clipVars, bmpVars, thrVars>>

InitStr ==
    /\ op = "init" /\ arg \in StrInputs /\ result = Ok(0) /\ osCalls = <<>>
    /\ OpenSess /\ IdleLock /\ IdleClip /\ IdleBmp /\ IdleThr
NextStr == Str_get
SpecStr == InitStr /\ [][NextStr]_vars

\* C14: Text decode stays inside the block.  For every locked block of n
\* bytes handed to format::string::get, the decoder reads only bytes at
\* offsets below n: it stops at the first zero byte or at offset n, the block
\* holding a zero byte or not, and so never faults.
C14_DecodeInsideBlock ==
    op = "string::get" =>
        /\ result.read <= arg.block.size
        /\ result.tag \in {"Ok", "Err"}

(***************************************************************************)
(* The two setters side by side: lib.rs set_string, set_files              *)
(***************************************************************************)

\* A string for set_string and a path list for set_files.
SetInputs ==
    [string : Strings, paths : {<<>>}] \cup [string : {<<>>}, paths : PathLists]

InitSet ==
    /\ op = "init" /\ arg \in SetInputs /\ result = Ok(0) /\ osCalls = <<>>
    /\ OpenSess /\ IdleLock /\ IdleClip /\ IdleBmp /\ IdleThr
NextSet == Text_set_string \/ Files_set_files
SpecSet == InitSet /\ [][NextSet]_vars

\* The positions of call c in the trace s.
At(s, c) == {i \in 1..Len(s) : s[i] = c}

\* C15: Transfer ordering in set.  In set_string and set_files the new block
\* is locked right after its allocation and stays locked until
\* SetClipboardData has returned: the block's one GlobalUnlock comes after
\* that call, when the transfer succeeded and when it failed with
\* SetClipboard; the program never frees the handle.
C15_TransferOrdering ==
    op \in {"set_string", "set_files"} =>
        /\ Count(osCalls, "GlobalFree") = 0
        /\ Count(osCalls, "SetClipboardData") <= 1
        /\ (result.tag = "Ok" \/ result = Err("SetClipboard"))
              <=> Count(osCalls, "SetClipboardData") = 1
        /\ Count(osCalls, "SetClipboardData") = 1 =>
              /\ Count(osCalls, "GlobalAlloc") = 1
              /\ Count(osCalls, "GlobalLock") = 1
              /\ Count(osCalls, "GlobalUnlock") = 1
              /\ \A a \in At(osCalls, "GlobalAlloc"),
                    l \in At(osCalls, "GlobalLock"),
                    t \in At(osCalls, "SetClipboardData"),
                    u \in At(osCalls, "GlobalUnlock") :
                       a < l /\ l < t /\ t < u

\* A set_files whose SetClipboardData the OS rejected unlocked the block
\* after that call.
C15_Witness ==
    /\ op = "set_files" /\ result = Err("SetClipboard")
    /\ osCalls = <<"GlobalAlloc", "GlobalLock", "GlobalSize",
                   "SetClipboardData", "GlobalUnlock">>

(***************************************************************************)
(* File-list decode on every answer of the OS: format/files.rs get_files   *)
(***************************************************************************)

\* Per file: the length DragQueryFileW reports and the name it writes.
FileAnswers == [needed : {0, 1, 2}, written : {<<>>, <<67>>, <<68, 92>>}]
DropInputs ==
    {[count |-> Len(f), files |-> f] : f \in SeqsUpTo(FileAnswers, MaxPaths)}

Files_get_files ==
    /\ op = "init"
    /\ op' = "get_files"
    /\ arg' = arg
    /\ result' = DropHandle_get_files(arg)
    /\ osCalls' = <<"DragQueryFileW">>
    /\ UNCHANGED <<sessVars, lockVars, clipVars, bmpVars, thrVars>>

InitDrop ==
    /\ op = "init" /\ arg \in DropInputs /\ result = Ok(0) /\ osCalls = <<>>
    /\ OpenSess /\ IdleLock /\ IdleClip /\ IdleBmp /\ IdleThr
NextDrop == Files_get_files
SpecDrop == InitDrop /\ [][NextDrop]_vars

\* The units the OS wrote for file i (from 1) of the answers os.
Written(os, i) ==
    SubSeq(os.files[i].written, 1,
           IF Len(os.files[i].written) < os.files[i].needed
           THEN Len(os.files[i].written) ELSE os.files[i].needed)

\* C16: File-list decode errors carry the first offending index.  A file
\* count of zero fails with PathCount.  Otherwise the first index, in the
\* order 0..count-1, whose length query reports zero or whose fetch writes
\* zero units decides: PathLength{idx} for the length query, FilePath{idx}
\* for the fetch, and the error carries no partial list.  With no such index
\* the result is Ok of exactly count paths, in the OS order.
C16_FirstOffendingIndex ==
    op = "get_files" =>
        LET bad == {i \in 1..arg.count :
                       arg.files[i].needed = 0 \/ Written(arg, i) = <<>>}
            first == CHOOSE i \in bad : \A j \in bad : i <= j
        IN  /\ arg.count = 0 => result = Err("PathCount")
            /\ (arg.count > 0 /\ bad # {}) =>
                  result = [tag |-> "Err",
                            err |-> IF arg.files[first].needed = 0
                                    THEN "PathLength" ELSE "FilePath",
                            idx |-> first - 1]
            /\ (arg.count > 0 /\ bad = {}) =>
                  /\ result.tag = "Ok"
                  /\ Len(result.val) = arg.count
                  /\ \A i \in 1..arg.count :
                        result.val[i]
                            = from_ill_formed_utf16_lossy(Written(arg, i))

\* The second length query failed after the first file had been fetched.
C16_Witness ==
    /\ op = "get_files" /\ arg.count = 2
    /\ arg.files[1] = [needed |-> 1, written |-> <<67>>]
    /\ arg.files[2].needed = 0
    /\ result = [tag |-> "Err", err |-> "PathLength", idx |-> 1]

(***************************************************************************)
(* CF_UNICODETEXT decode on blocks of every size: format/string.rs         *)
(* get_unicode                                                             *)
(***************************************************************************)
MaxUnits == 3        \* whole 16-bit units in a CF_UNICODETEXT block

\* Units of a block: NUL, 'A', a high and a low surrogate.
TextUnits == {0, 65, 55357, 56832}

\* Blocks of 0 .. 2 * MaxUnits + 1 bytes: the units, and an odd byte or not.
UniInputs ==
    [block : {MemBlock(2 * Len(u) + odd, 2 * Len(u) + odd, u) :
                 u \in SeqsUpTo(TextUnits, MaxUnits), odd \in {0, 1}},
     fault : GetFaults \ {"GetClipboard"}]

Uni_get_unicode ==
    LET out == get_unicode(arg.block, arg.fault)
    IN  /\ op = "init"
        /\ op' = "get_unicode"
        /\ arg' = arg
        /\ result' = out.res @@ [len |-> out.len]
        /\ osCalls' = out.calls
        /\ UNCHANGED <<sessVars, lockVars, clipVars, bmpVars, thrVars>>

InitUni ==
    /\ op = "init" /\ arg \in UniInputs /\ result = Ok(0) /\ osCalls = <<>>
    /\ OpenSess /\ IdleLock /\ IdleClip /\ IdleBmp /\ IdleThr
NextUni == Uni_get_unicode
SpecUni == InitUni /\ [][NextUni]_vars

\* C19: UnicodeText decode length.  For every block LockedPtr::<u16>::new
\* accepts, get_unicode (meeting no OS failure) decodes exactly
\* floor(size/2) - 1 code units from offset 0; that number is never negative,
\* for the smallest accepted block too, and a block that holds only the
\* terminator decodes to the empty string.
C19_UnicodeDecodeLength ==
    (/\ op = "get_unicode" /\ arg.fault = "none"
     /\ LockedPtr_new(1, "u16", TRUE, arg.block.size).res.tag = "Ok") =>
        LET n == (arg.block.size \div 2) - 1
        IN  /\ n >= 0
            /\ result.tag = "Ok"
            /\ result.len = n
            /\ result.val
                  = from_ill_formed_utf16_lossy([i \in 1..n |-> arg.block.units[i]])
            /\ arg.block.size \div 2 = 1 => result.val = <<>>

\* The smallest accepted block, two bytes holding the terminator, decoded to
\* the empty string.
C19_Witness ==
    /\ op = "get_unicode" /\ arg.fault = "none"
    /\ arg.block.size = 2 /\ arg.block.units = <<0>>
    /\ result.tag = "Ok" /\ result.val = <<>> /\ result.len = 0
====
